---- MODULE Spec2Model ----
(***************************************************************************)
(* Model of spec-parser: the in-memory vocabulary model (utils.py) and its  *)
(* helpers (helper.py).                                                      *)
(*                                                                           *)
(* Representation.                                                           *)
(*   - A Python str that the code splits or concatenates (entity names,      *)
(*     namespace names, references, identifiers) is a sequence of            *)
(*     one-character strings: "a:b" is <<"a", ":", "b">>.                   *)
(*   - A Python str used only as a dictionary key (metadata keys, property   *)
(*     names, attribute names, entry names) is a TLA+ string.                *)
(*   - A Python dict (insertion ordered) is a sequence of records            *)
(*     [k |-> key, v |-> value] with pairwise distinct keys.                 *)
(*   - A Python object is a record in the heap objs; its identity is its     *)
(*     index in objs.                                                        *)
(***************************************************************************)
EXTENDS Integers, Sequences, FiniteSets, TLC

VARIABLES
    id_metadata_prefix, \* config.id_metadata_prefix
    sink_attached,      \* an ErrorFoundFilter sits on a root-logger handler
    worst_level,        \* ErrorFoundFilter.worst_level
    objs,               \* heap: every entity constructed so far, in order
    pending,            \* constructed entities not yet handed to add_namespace
    namespaces,         \* Spec.namespaces
    dataprop_refs,      \* Spec.dataprop_refs
    files,              \* paths written so far
    g,                  \* the rdflib graph of the latest gen_rdf/_gen_rdf call
    exc,                \* uncaught exception that ended the run, or "none"
    last,               \* the operation executed last
    args,               \* arguments of the pure-function call under check
    ret                 \* results of the pure-function calls made so far

vars == <<id_metadata_prefix, sink_attached, worst_level, objs, pending,
          namespaces, dataprop_refs, files, g, exc, last, args, ret>>

----------------------------------------------------------------------------
(* Bounds of the model *)

MaxObjs == 2        \* entities constructed in one run of Spec
MaxDecls == 2       \* declarations in one list handed to a constructor
MaxRefLen == 3      \* characters of a reference handed to gen_rdf_id
MaxDictLen == 2     \* entries of a dict handed to union_dict

(* logging levels *)
INFO == 20
WARNING == 30
ERROR == 40

----------------------------------------------------------------------------
(* Python dict *)

Has(d, k) == \E i \in DOMAIN d : d[i].k = k

Get(d, k) == d[CHOOSE i \in DOMAIN d : d[i].k = k].v

Put(d, k, v) ==
    IF Has(d, k)
    THEN [i \in DOMAIN d |-> IF d[i].k = k THEN [k |-> k, v |-> v] ELSE d[i]]
    ELSE Append(d, [k |-> k, v |-> v])

Keys(d) == [i \in DOMAIN d |-> d[i].k]

KeySet(d) == {d[i].k : i \in DOMAIN d}

GetOr(d, k, dflt) == IF Has(d, k) THEN Get(d, k) ELSE dflt

----------------------------------------------------------------------------
(* helper.py *)

\* ErrorFoundFilter.filter: the new worst_level after a record of level levelno
filter(levelno, worst) == IF levelno > worst THEN levelno ELSE worst

\* a record of level levelno emitted by any logger: it reaches the filter
\* only when one is attached to a handler of the root logger
Log(levelno, worst) == IF sink_attached THEN filter(levelno, worst) ELSE worst

isError_strict == sink_attached /\ worst_level > ERROR

isError == sink_attached /\ worst_level >= ERROR

RECURSIVE union_dict_loop(_, _)
union_dict_loop(d1, items) ==
    IF items = <<>> THEN d1
    ELSE LET k == Head(items).k
             v == Head(items).v
         IN union_dict_loop(IF ~Has(d1, k) THEN Put(d1, k, v) ELSE d1,
                            Tail(items))

RECURSIVE union_dict_overwrite_loop(_, _)
union_dict_overwrite_loop(d1, items) ==
    IF items = <<>> THEN d1
    ELSE union_dict_overwrite_loop(Put(d1, Head(items).k, Head(items).v),
                                   Tail(items))

union_dict_overwrite(d1, d2) ==
    [d1 |-> union_dict_overwrite_loop(d1, d2), d2 |-> d2]

\* union_dict mutates d1 in place and returns nothing: the value is the
\* pair of both dicts after the call
union_dict(d1, d2) == [d1 |-> union_dict_loop(d1, d2), d2 |-> d2]

\* re.split(r':', s)
RECURSIVE re_split(_)
re_split(s) ==
    IF \A i \in DOMAIN s : s[i] # ":"
    THEN <<s>>
    ELSE LET i == CHOOSE j \in DOMAIN s :
                      s[j] = ":" /\ \A h \in 1..(j - 1) : s[h] # ":"
         IN <<SubSeq(s, 1, i - 1)>> \o re_split(SubSeq(s, i + 1, Len(s)))

gen_rdf_id_ge2(entity, namespace_name) ==
    LET splitted == re_split(entity)
    IN IF Len(splitted) >= 2 THEN entity
       ELSE id_metadata_prefix \o namespace_name \o <<"#">>
                \o splitted[Len(splitted)]

gen_rdf_id_ctx(entity, namespace_name) ==
    LET splitted == re_split(entity)
    IN IF Len(splitted) > 2 THEN entity
       ELSE id_metadata_prefix \o namespace_name \o <<"#">>
                \o splitted[Len(splitted)]

gen_rdf_id(entity, namespace_name) ==
    LET splitted == re_split(entity)
    IN IF Len(splitted) > 2 THEN entity
       ELSE IF Len(splitted) = 2
            THEN id_metadata_prefix \o splitted[1] \o <<"#">>
                     \o splitted[Len(splitted)]
            ELSE id_metadata_prefix \o namespace_name \o <<"#">>
                     \o splitted[Len(splitted)]

----------------------------------------------------------------------------
(* config.py: the configuration surface (a fixed identifier prefix, a       *)
(* default metadata mapping, a default property-attribute mapping)          *)

\* candidate prefixes: no colon, a URI with a scheme, a URI with a scheme
\* and a port
Prefixes == { <<"/">>, <<"h", ":", "/">>, <<"h", ":", "9", ":", "/">> }

metadata_defaults == << [k |-> "Status", v |-> << <<"S">> >>] >>

property_defaults == << [k |-> "minCount", v |-> << <<"0">> >>] >>

----------------------------------------------------------------------------
(* utils.py: the entity model *)

\* f'{id_metadata_prefix}{self.namespace_name}#{self.name}'
EntityId(namespace_name, name) ==
    id_metadata_prefix \o namespace_name \o <<"#">> \o name

\* the loop `for _dict in mdata_list` of extract_metadata, also the loop
\* `for avline in avline_list` of extract_properties: err tells whether
\* logger.error was called
RECURSIVE decl_loop(_, _, _)
decl_loop(d, err, list) ==
    IF list = <<>> THEN [d |-> d, err |-> err]
    ELSE LET _key == Head(list).name
             _values == Head(list).values
         IN decl_loop(Put(d, _key, _values), err \/ Has(d, _key), Tail(list))

SpecClass_extract_metadata(namespace_name, name, mdata_list) ==
    LET r == decl_loop(<< [k |-> "id", v |-> <<EntityId(namespace_name, name)>>] >>,
                       FALSE, mdata_list)
    IN [d |-> union_dict(r.d, metadata_defaults).d1, err |-> r.err]

SpecProperty_extract_metadata(namespace_name, name, mdata_list) ==
    LET r == decl_loop(<< [k |-> "id", v |-> <<EntityId(namespace_name, name)>>] >>,
                       FALSE, mdata_list)
    IN [d |-> union_dict(r.d, metadata_defaults).d1, err |-> r.err]

SpecVocab_extract_metadata(namespace_name, name, mdata_list) ==
    LET r == decl_loop(<< [k |-> "id", v |-> <<EntityId(namespace_name, name)>>] >>,
                       FALSE, mdata_list)
    IN [d |-> union_dict(r.d, metadata_defaults).d1, err |-> r.err]

\* the loop `for entry in entry_list` of SpecVocab.extract_entries
RECURSIVE entry_loop(_, _, _)
entry_loop(d, err, list) ==
    IF list = <<>> THEN [d |-> d, err |-> err]
    ELSE LET _key == Head(list).name
             _value == Head(list).value
         IN entry_loop(Put(d, _key, _value), err \/ Has(d, _key), Tail(list))

SpecVocab_extract_entries(entry_list) == entry_loop(<<>>, FALSE, entry_list)

\* the loop `for prop in props_list` of SpecClass.extract_properties.
\* bound tells whether the local _key has been assigned: the message of the
\* duplicate-property error reads _key, so reporting a duplicate property
\* before any attribute line was seen raises UnboundLocalError.
RECURSIVE props_loop(_, _, _, _)
props_loop(properties, err, bound, props_list) ==
    IF props_list = <<>>
    THEN [d |-> properties, err |-> err, raised |-> FALSE]
    ELSE LET name == Head(props_list).name
             avline_list == Head(props_list).values
             sub == decl_loop(<<>>, FALSE, avline_list)
             bound2 == bound \/ avline_list # <<>>
         IN IF Has(properties, name) /\ ~bound2
            THEN [d |-> properties, err |-> err \/ sub.err, raised |-> TRUE]
            ELSE props_loop(
                     Put(properties, name,
                         union_dict(sub.d, property_defaults).d1),
                     err \/ sub.err \/ Has(properties, name),
                     bound2, Tail(props_list))

\* the loop `for dataprop in self.properties.keys()`
RECURSIVE refs_loop(_, _, _)
refs_loop(refs, keys, ref) ==
    IF keys = <<>> THEN refs
    ELSE refs_loop(Put(refs, Head(keys),
                       Append(GetOr(refs, Head(keys), <<>>), ref)),
                   Tail(keys), ref)

\* a variant that appends once per declaration instead of once per key
RECURSIVE refs_per_decl(_, _, _, _)
refs_per_decl(namespace_name, name, props_list, refs) ==
    IF props_list = <<>> THEN refs
    ELSE refs_per_decl(namespace_name, name, Tail(props_list),
             Put(refs, Head(props_list).name,
                 Append(GetOr(refs, Head(props_list).name, <<>>),
                        namespace_name \o <<":">> \o name)))

populate_refs_per_decl(namespace_name, name, properties, props_list, refs) ==
    refs_per_decl(namespace_name, name, props_list, refs)

\* `# populate all refs to data property`: props_list is not read
populate_refs(namespace_name, name, properties, props_list, refs) ==
    refs_loop(refs, Keys(properties), namespace_name \o <<":">> \o name)

\* SpecClass.extract_properties: the properties dict, whether an error was
\* logged, whether it raised, and spec.dataprop_refs afterwards
SpecClass_extract_properties(namespace_name, name, props_list, refs) ==
    LET r == props_loop(<<>>, FALSE, FALSE, props_list)
    IN [d |-> r.d, err |-> r.err, raised |-> r.raised,
        refs |-> IF r.raised THEN refs
                 ELSE populate_refs(namespace_name, name, r.d, props_list, refs)]

\* an entity object; in_* are the constructor's arguments, kept for the
\* properties below (the code does not store them)
Entity(kind, namespace_name, name, metadata, properties, entries, in_metadata, in_props, in_entries) ==
    [kind |-> kind, namespace_name |-> namespace_name, name |-> name,
     metadata |-> metadata, properties |-> properties, entries |-> entries,
     in_metadata |-> in_metadata, in_props |-> in_props,
     in_entries |-> in_entries]

----------------------------------------------------------------------------
(* utils.py: triple contribution *)

Triple(s, p, o) == [s |-> s, p |-> p, o |-> o]

\* self.metadata['id'][0] raises IndexError on an empty list
IdRaises(obj) == Get(obj.metadata, "id") = <<>>

Cur(obj) == Get(obj.metadata, "id")[1]

SpecClass_gen_rdf(obj, graph) ==
    graph \cup {Triple(Cur(obj), "rdf:type", <<"owl:Class">>)}
          \cup {Triple(Cur(obj), "rdfs:subClassOf",
                       gen_rdf_id(GetOr(obj.metadata, "SubclassOf", <<>>)[i],
                                  obj.namespace_name)) :
                    i \in DOMAIN GetOr(obj.metadata, "SubclassOf", <<>>)}

\* self.metadata.get('Nature', 'ObjectProperty') is truthy when the key is
\* absent or its value list is not empty
NatureTruthy(obj) ==
    ~Has(obj.metadata, "Nature") \/ Get(obj.metadata, "Nature") # <<>>

SpecProperty_gen_rdf(obj, graph) ==
    graph \cup {Triple(Cur(obj), "rdf:type",
                       IF NatureTruthy(obj) THEN <<"owl:ObjectProperty">>
                                            ELSE <<"owl:DatatypeProperty">>)}
          \cup {Triple(Cur(obj), "rdfs:range",
                       gen_rdf_id(GetOr(obj.metadata, "Range", <<>>)[i],
                                  obj.namespace_name)) :
                    i \in DOMAIN GetOr(obj.metadata, "Range", <<>>)}
          \cup {Triple(Cur(obj), "rdfs:domain",
                       gen_rdf_id(GetOr(obj.metadata, "Domain", <<>>)[i],
                                  obj.namespace_name)) :
                    i \in DOMAIN GetOr(obj.metadata, "Domain", <<>>)}

SpecVocab_gen_rdf(obj, graph) ==
    graph \cup {Triple(Cur(obj), "rdf:type", <<"owl:Class">>)}

\* dispatch of obj._gen_rdf(g) on the object's class
Entity_gen_rdf(obj, graph) ==
    CASE obj.kind = "Classes" -> SpecClass_gen_rdf(obj, graph)
      [] obj.kind = "Properties" -> SpecProperty_gen_rdf(obj, graph)
      [] obj.kind = "Vocabularies" -> SpecVocab_gen_rdf(obj, graph)

----------------------------------------------------------------------------
(* utils.py: the registry *)

\* the loops `for _class in classes` etc. of add_namespace; list holds
\* object identities
RECURSIVE name_loop(_, _, _)
name_loop(d, err, list) ==
    IF list = <<>> THEN [d |-> d, err |-> err]
    ELSE LET nm == objs[Head(list)].name
         IN name_loop(Put(d, nm, Head(list)), err \/ Has(d, nm), Tail(list))

RECURSIVE name_loop_first(_, _, _)
name_loop_first(d, err, list) ==
    IF list = <<>> THEN [d |-> d, err |-> err]
    ELSE LET nm == objs[Head(list)].name
         IN name_loop_first(IF Has(d, nm) THEN d ELSE Put(d, nm, Head(list)),
                            err \/ Has(d, nm), Tail(list))

\* a variant that rejects duplicates and keeps the first declaration
Spec_add_namespace_first(name, classes, properties, vocabs) ==
    LET c == name_loop_first(<<>>, FALSE, classes)
        p == name_loop_first(<<>>, FALSE, properties)
        v == name_loop_first(<<>>, FALSE, vocabs)
        namespace_el == [name |-> name, classes |-> c.d,
                         properties |-> p.d, vocabs |-> v.d]
    IN [namespaces |-> IF Has(namespaces, name) THEN namespaces
                       ELSE Put(namespaces, name, namespace_el),
        err |-> c.err \/ p.err \/ v.err \/ Has(namespaces, name)]

\* Spec.add_namespace: self.namespaces afterwards, and whether an error was
\* logged
Spec_add_namespace(name, classes, properties, vocabs) ==
    LET c == name_loop(<<>>, FALSE, classes)
        p == name_loop(<<>>, FALSE, properties)
        v == name_loop(<<>>, FALSE, vocabs)
        namespace_el == [name |-> name, classes |-> c.d,
                         properties |-> p.d, vocabs |-> v.d]
    IN [namespaces |-> Put(namespaces, name, namespace_el),
        err |-> c.err \/ p.err \/ v.err \/ Has(namespaces, name)]

\* the values of a dict, in order
Values(d) == [i \in DOMAIN d |-> d[i].v]

\* the objects visited by the nested loops of dump_md and gen_rdf, in order
RECURSIVE Walk(_)
Walk(nss) ==
    IF nss = <<>> THEN <<>>
    ELSE LET el == Head(nss).v
         IN Values(el.classes) \o Values(el.properties) \o Values(el.vocabs)
                \o Walk(Tail(nss))

\* path.join(args.out, self.namespace_name, <kind>, f'{self.name}.md')
MdPath(obj) ==
    [dir |-> obj.namespace_name, kind |-> obj.kind, name |-> obj.name]

\* path.join(args.out, 'tst.ttl')
TtlPath == [dir |-> <<>>, kind |-> "", name |-> <<"tst.ttl">>]

\* the walk of gen_rdf over the objects in list: the graph built, and
\* whether a _gen_rdf raised
RECURSIVE gen_loop(_, _)
gen_loop(graph, list) ==
    IF list = <<>> THEN [g |-> graph, raised |-> FALSE]
    ELSE IF IdRaises(objs[Head(list)])
         THEN [g |-> graph, raised |-> TRUE]
         ELSE gen_loop(Entity_gen_rdf(objs[Head(list)], graph), Tail(list))

----------------------------------------------------------------------------
(* Inputs *)

SeqsUpTo(S, n) == UNION {[1..k -> S] : k \in 0..n}

NsNames == { <<"n">>, <<"m">> }

Names == { <<"A">>, <<"B">> }

Decl(name, values) == [name |-> name, values |-> values]

Entry(name, value) == [name |-> name, value |-> value]

PropertyMdDecls ==
    { Decl("id", <<>>), Decl("id", << <<"x">> >>),
      Decl("Nature", <<>>), Decl("Nature", << <<"D">> >>),
      Decl("Range", << <<"W">> >>),
      Decl("Range", << <<"c", ":", "G">>, <<"W">> >>),
      Decl("Domain", << <<"W">> >>) }

ClassMdDecls ==
    { Decl("id", << <<"x">> >>),
      Decl("SubclassOf", << <<"b", ":", "T">> >>),
      Decl("SubclassOf", << <<"W">> >>) }

VocabMdDecls == { Decl("id", <<>>), Decl("Status", << <<"D">> >>) }

UsageDecls ==
    { Decl("p", <<>>),
      Decl("p", << Decl("type", << <<"T">> >>) >>),
      Decl("q", << Decl("type", << <<"T">> >>),
                   Decl("type", << <<"U">> >>) >>) }

EntryDecls == { Entry("e", "1"), Entry("e", "2"), Entry("f", "1") }

\* the smaller inputs of the whole-run specification
RunPropertyMd ==
    { <<>>, << Decl("Range", << <<"W">> >>),
               Decl("Range", << <<"c", ":", "G">> >>) >> }

RunProps ==
    { <<>>,
      << Decl("q", << Decl("type", << <<"T">> >>),
                      Decl("type", << <<"U">> >>) >>) >>,
      << Decl("p", <<>>), Decl("p", <<>>) >>,
      << Decl("p", << Decl("type", << <<"T">> >>) >>), Decl("p", <<>>) >> }

RunEntries == { <<>>, << Entry("e", "1"), Entry("e", "2") >> }

PropNames == {d.name : d \in UsageDecls}

----------------------------------------------------------------------------
(* Operations *)

NoPending == [classes |-> <<>>, properties |-> <<>>, vocabs |-> <<>>]

\* an uncaught exception ends the run
Running == exc = "none"

\* a run builds the whole registry before it produces any output
Building == Running /\ last \notin {"dump_md", "gen_rdf", "_gen_rdf"}

NewSpecClass(limit, namespace_name, name, metadata, props) ==
    /\ Building
    /\ Len(objs) < limit
    /\ LET m == SpecClass_extract_metadata(namespace_name, name, metadata)
           p == SpecClass_extract_properties(namespace_name, name, props,
                                             dataprop_refs)
       IN /\ worst_level' = IF m.err \/ p.err THEN Log(ERROR, worst_level)
                            ELSE worst_level
          /\ IF p.raised
             THEN /\ exc' = "UnboundLocalError"
                  /\ UNCHANGED <<objs, pending, dataprop_refs>>
             ELSE /\ exc' = exc
                  /\ objs' = Append(objs,
                                Entity("Classes", namespace_name, name, m.d,
                                       p.d, <<>>, metadata, props, <<>>))
                  /\ pending' = [pending EXCEPT
                                   !.classes = Append(@, Len(objs) + 1)]
                  /\ dataprop_refs' = p.refs
    /\ last' = "SpecClass"
    /\ args' = [namespace_name |-> namespace_name, name |-> name,
                props |-> props]
    /\ UNCHANGED <<id_metadata_prefix, sink_attached, namespaces, files, g,
                   ret>>

NewSpecProperty(limit, namespace_name, name, metadata) ==
    /\ Building
    /\ Len(objs) < limit
    /\ LET m == SpecProperty_extract_metadata(namespace_name, name, metadata)
       IN /\ worst_level' = IF m.err THEN Log(ERROR, worst_level)
                            ELSE worst_level
          /\ objs' = Append(objs,
                        Entity("Properties", namespace_name, name, m.d,
                               <<>>, <<>>, metadata, <<>>, <<>>))
    /\ pending' = [pending EXCEPT !.properties = Append(@, Len(objs) + 1)]
    /\ last' = "SpecProperty"
    /\ args' = <<>>
    /\ UNCHANGED <<id_metadata_prefix, sink_attached, namespaces,
                   dataprop_refs, files, g, exc, ret>>

NewSpecVocab(limit, namespace_name, name, metadata, entries) ==
    /\ Building
    /\ Len(objs) < limit
    /\ LET m == SpecVocab_extract_metadata(namespace_name, name, metadata)
           e == SpecVocab_extract_entries(entries)
       IN /\ worst_level' = IF m.err \/ e.err THEN Log(ERROR, worst_level)
                            ELSE worst_level
          /\ objs' = Append(objs,
                        Entity("Vocabularies", namespace_name, name, m.d,
                               <<>>, e.d, metadata, <<>>, entries))
    /\ pending' = [pending EXCEPT !.vocabs = Append(@, Len(objs) + 1)]
    /\ last' = "SpecVocab"
    /\ args' = <<>>
    /\ UNCHANGED <<id_metadata_prefix, sink_attached, namespaces,
                   dataprop_refs, files, g, exc, ret>>

\* Spec.add_namespace called with the entities constructed since the
\* previous call
AddNamespace(name) ==
    /\ Building
    /\ LET r == Spec_add_namespace(name, pending.classes,
                                   pending.properties, pending.vocabs)
       IN /\ namespaces' = r.namespaces
          /\ worst_level' = IF r.err THEN Log(ERROR, worst_level)
                            ELSE worst_level
    /\ pending' = NoPending
    /\ last' = "add_namespace"
    /\ args' = [name |-> name, classes |-> pending.classes,
                properties |-> pending.properties,
                vocabs |-> pending.vocabs]
    /\ UNCHANGED <<id_metadata_prefix, sink_attached, objs, dataprop_refs,
                   files, g, exc, ret>>

\* Spec.dump_md
DumpMd ==
    /\ Running
    /\ IF isError
       THEN /\ worst_level' = Log(WARNING, worst_level)
            /\ files' = files
       ELSE /\ worst_level' = worst_level
            /\ files' = files \cup
                   {MdPath(objs[Walk(namespaces)[i]]) :
                        i \in DOMAIN Walk(namespaces)}
    /\ last' = "dump_md"
    /\ args' = <<>>
    /\ UNCHANGED <<id_metadata_prefix, sink_attached, objs, pending,
                   namespaces, dataprop_refs, g, exc, ret>>

\* Spec.gen_rdf
GenRdf ==
    /\ Running
    /\ LET r == gen_loop({}, Walk(namespaces))
       IN /\ g' = r.g
          /\ IF r.raised
             THEN /\ exc' = "IndexError"
                  /\ UNCHANGED <<worst_level, files>>
             ELSE /\ exc' = exc
                  /\ IF isError
                     THEN /\ worst_level' = Log(WARNING, worst_level)
                          /\ files' = files
                     ELSE /\ worst_level' = worst_level
                          /\ files' = files \cup {TtlPath}
    /\ last' = "gen_rdf"
    /\ args' = <<>>
    /\ UNCHANGED <<id_metadata_prefix, sink_attached, objs, pending,
                   namespaces, dataprop_refs, ret>>

\* obj._gen_rdf(g) called on a fresh graph
Emit(i) ==
    /\ Running
    /\ i \in DOMAIN objs
    /\ IF IdRaises(objs[i])
       THEN g' = {} /\ exc' = "IndexError"
       ELSE g' = Entity_gen_rdf(objs[i], {}) /\ exc' = exc
    /\ last' = "_gen_rdf"
    /\ args' = <<>>
    /\ UNCHANGED <<id_metadata_prefix, sink_attached, worst_level, objs,
                   pending, namespaces, dataprop_refs, files, ret>>

----------------------------------------------------------------------------
(* A whole run: constructions, registrations and the two output steps *)

InitWith(prefixes, attached) ==
    /\ id_metadata_prefix \in prefixes
    /\ sink_attached \in attached
    /\ worst_level = INFO
    /\ objs = <<>>
    /\ pending = NoPending
    /\ namespaces = <<>>
    /\ dataprop_refs = <<>>
    /\ files = {}
    /\ g = {}
    /\ exc = "none"
    /\ last = "init"
    /\ args = <<>>
    /\ ret = <<>>

\* a run: the configured prefix is a URI with a scheme, and the driver has
\* attached the ErrorFoundFilter before it constructs anything
Init == InitWith({ <<"h", ":", "/">> }, {TRUE})

Next ==
    \/ \E name \in Names, props \in RunProps :
          NewSpecClass(MaxObjs, <<"n">>, name, <<>>, props)
    \/ \E name \in Names, md \in RunPropertyMd :
          NewSpecProperty(MaxObjs, <<"n">>, name, md)
    \/ \E name \in Names, entries \in RunEntries :
          NewSpecVocab(MaxObjs, <<"n">>, name, <<>>, entries)
    \/ \E name \in NsNames : AddNamespace(name)
    \/ DumpMd
    \/ GenRdf

Spec == Init /\ [][Next]_vars

----------------------------------------------------------------------------
(* One entity: a constructor call on richer inputs, then its _gen_rdf *)

InitEntity == InitWith(Prefixes, BOOLEAN)

NextEntity ==
    \/ \E ns \in NsNames, name \in Names,
          md \in SeqsUpTo(ClassMdDecls, MaxDecls),
          props \in SeqsUpTo(UsageDecls, MaxDecls) :
          NewSpecClass(1, ns, name, md, props)
    \/ \E ns \in NsNames, name \in Names,
          md \in SeqsUpTo(PropertyMdDecls, MaxDecls) :
          NewSpecProperty(1, ns, name, md)
    \/ \E ns \in NsNames, name \in Names,
          md \in SeqsUpTo(VocabMdDecls, MaxDecls),
          entries \in SeqsUpTo(EntryDecls, MaxDecls) :
          NewSpecVocab(1, ns, name, md, entries)
    \/ \E i \in DOMAIN objs : Emit(i)

SpecEntity == InitEntity /\ [][NextEntity]_vars

----------------------------------------------------------------------------
(* gen_rdf_id applied to a reference, then to its own output *)

RefChars == {"a", "b", ":"}

CtxNames == NsNames \cup { <<"n", ":", "s">> }

InitResolve ==
    /\ id_metadata_prefix \in Prefixes
    /\ sink_attached = TRUE
    /\ worst_level = INFO
    /\ objs = <<>>
    /\ pending = NoPending
    /\ namespaces = <<>>
    /\ dataprop_refs = <<>>
    /\ files = {}
    /\ g = {}
    /\ exc = "none"
    /\ last = "init"
    /\ args \in [entity : SeqsUpTo(RefChars, MaxRefLen),
                 namespace_name : CtxNames, again : CtxNames]
    /\ ret = <<>>

Resolve ==
    /\ last = "init"
    /\ ret' = <<gen_rdf_id(args.entity, args.namespace_name)>>
    /\ last' = "gen_rdf_id"
    /\ UNCHANGED <<id_metadata_prefix, sink_attached, worst_level, objs,
                   pending, namespaces, dataprop_refs, files, g, exc, args>>

ResolveAgain ==
    /\ last = "gen_rdf_id"
    /\ ret' = Append(ret, gen_rdf_id(ret[1], args.again))
    /\ last' = "gen_rdf_id again"
    /\ UNCHANGED <<id_metadata_prefix, sink_attached, worst_level, objs,
                   pending, namespaces, dataprop_refs, files, g, exc, args>>

NextResolve == Resolve \/ ResolveAgain

SpecResolve == InitResolve /\ [][NextResolve]_vars

----------------------------------------------------------------------------
(* union_dict applied to two dicts *)

UKeys == {"a", "b", "c"}

UVals == {"1", "2"}

Dicts ==
    {d \in SeqsUpTo([k : UKeys, v : UVals], MaxDictLen) :
        \A i, j \in DOMAIN d : d[i].k = d[j].k => i = j}

InitUnion ==
    /\ id_metadata_prefix = <<"h", ":", "/">>
    /\ sink_attached = TRUE
    /\ worst_level = INFO
    /\ objs = <<>>
    /\ pending = NoPending
    /\ namespaces = <<>>
    /\ dataprop_refs = <<>>
    /\ files = {}
    /\ g = {}
    /\ exc = "none"
    /\ last = "init"
    /\ args \in [d1 : Dicts, d2 : Dicts]
    /\ ret = <<>>

UnionDict ==
    /\ last = "init"
    /\ ret' = <<union_dict(args.d1, args.d2)>>
    /\ last' = "union_dict"
    /\ UNCHANGED <<id_metadata_prefix, sink_attached, worst_level, objs,
                   pending, namespaces, dataprop_refs, files, g, exc, args>>

NextUnion == UnionDict

SpecUnion == InitUnion /\ [][NextUnion]_vars

----------------------------------------------------------------------------
(* Properties.  Helpers used only to state them. *)

Colons(s) == Cardinality({i \in DOMAIN s : s[i] = ":"})

\* the three-case definition of the resolver, by colon count
ResolveByCases(reference, contextNamespace) ==
    IF Colons(reference) = 0
    THEN id_metadata_prefix \o contextNamespace \o <<"#">> \o reference
    ELSE IF Colons(reference) = 1
         THEN LET i == CHOOSE j \in DOMAIN reference : reference[j] = ":"
              IN id_metadata_prefix \o SubSeq(reference, 1, i - 1) \o <<"#">>
                     \o SubSeq(reference, i + 1, Len(reference))
         ELSE reference

\* index of the first declaration, in list, of the name declared at a
IsFirstOfDuplicate(list, a) ==
    /\ \E b \in DOMAIN list : b # a /\ list[b].name = list[a].name
    /\ \A c \in 1..(a - 1) : list[c].name # list[a].name

ErrorRecorded == sink_attached => worst_level >= ERROR

(* C1: once an error was recorded by the ErrorFoundFilter, no later step of *)
(* the run, dump_md and gen_rdf included, writes any file.                  *)
C1_AllOrNothing == [][worst_level >= ERROR => files' = files]_vars

\* both output steps were attempted on a non-empty registry of a tainted run
C1_Witness ==
    /\ last = "dump_md"
    /\ g # {}
    /\ worst_level >= ERROR
    /\ files = {}

(* C2: after construction metadata['id'] is the single-element list         *)
(* [<prefix>N#E], whatever the metadata declarations are.                   *)
C2_IdNotOverridable ==
    \A i \in DOMAIN objs :
        Get(objs[i].metadata, "id")
            = <<EntityId(objs[i].namespace_name, objs[i].name)>>

(* C3: when a metadata declaration list names a key more than once, the     *)
(* entity's metadata holds the values of the first declaration of that key, *)
(* every declaration was processed, and the sink's severity is >= ERROR.    *)
C3_FirstMetadataValueKept ==
    \A i \in DOMAIN objs :
        LET md == objs[i].in_metadata
            m == objs[i].metadata
        IN \A a \in DOMAIN md :
               IsFirstOfDuplicate(md, a) =>
                   /\ Has(m, md[a].name)
                   /\ Get(m, md[a].name) = md[a].values
                   /\ \A j \in DOMAIN md : Has(m, md[j].name)
                   /\ ErrorRecorded

(* C4: when the entry list of a SpecVocab names an entry more than once, an *)
(* ERROR is recorded and entries[e] is the value of the first declaration.  *)
C4_FirstEntryKept ==
    \A i \in DOMAIN objs :
        LET en == objs[i].in_entries
            e == objs[i].entries
        IN \A a \in DOMAIN en :
               IsFirstOfDuplicate(en, a) =>
                   /\ Has(e, en[a].name)
                   /\ Get(e, en[a].name) = en[a].value
                   /\ ErrorRecorded

(* C5: gen_rdf_id(reference, contextNamespace) is <prefix><context>#a for a *)
(* reference a without colon, <prefix>a#b for a:b, and the reference itself *)
(* for two or more colons.                                                  *)
C5_ThreeCases ==
    last # "init" /\ Len(ret) >= 1 =>
        ret[1] = ResolveByCases(args.entity, args.namespace_name)

\* an explicit namespace other than the context was resolved
C5_Witness ==
    /\ last = "gen_rdf_id"
    /\ Colons(args.entity) = 1
    /\ args.entity[1] = "a"
    /\ args.namespace_name = <<"n">>
    /\ ret[1] = id_metadata_prefix \o <<"a", "#", "b">>

\* the calls of the SpecClass constructor that returned, in order
ClassObjs == SelectSeq(objs, LAMBDA o : o.kind = "Classes")

\* <namespace>:<className> of the constructed classes that declare p
ExpectedRefs(p) ==
    LET Uses(o) == \E j \in DOMAIN o.in_props : o.in_props[j].name = p
        users == SelectSeq(ClassObjs, Uses)
    IN [i \in DOMAIN users |->
            users[i].namespace_name \o <<":">> \o users[i].name]

ExpectedPropertyTriples(obj) ==
    LET id == EntityId(obj.namespace_name, obj.name)
        range == GetOr(obj.metadata, "Range", <<>>)
        domain == GetOr(obj.metadata, "Domain", <<>>)
    IN {Triple(id, "rdf:type",
               IF ~Has(obj.metadata, "Nature")
                      \/ Get(obj.metadata, "Nature") # <<>>
               THEN <<"owl:ObjectProperty">>
               ELSE <<"owl:DatatypeProperty">>)}
       \cup {Triple(id, "rdfs:range",
                    ResolveByCases(range[i], obj.namespace_name)) :
                 i \in DOMAIN range}
       \cup {Triple(id, "rdfs:domain",
                    ResolveByCases(domain[i], obj.namespace_name)) :
                 i \in DOMAIN domain}

(* C7: _gen_rdf of a SpecProperty adds one rdf:type triple for the          *)
(* property's id (ObjectProperty when Nature is absent or not empty, else   *)
(* DatatypeProperty), one rdfs:range triple per Range value, one            *)
(* rdfs:domain triple per Domain value, each resolved against the           *)
(* property's namespace, and nothing else.                                  *)
C7_PropertyTriples ==
    last = "_gen_rdf" /\ objs[1].kind = "Properties" =>
        /\ exc = "none"
        /\ g = ExpectedPropertyTriples(objs[1])

\* the same statement for the properties whose declarations do not name id
PropertyTriplesWhenIdNotDeclared ==
    /\ last = "_gen_rdf"
    /\ objs[1].kind = "Properties"
    /\ \A j \in DOMAIN objs[1].in_metadata : objs[1].in_metadata[j].name # "id"
    => /\ exc = "none"
       /\ g = ExpectedPropertyTriples(objs[1])

\* some two objects of list share a name
DupIn(list) ==
    \E i, j \in DOMAIN list : i < j /\ objs[list[i]].name = objs[list[j]].name

\* dict maps every name of list to the last object of list with that name
KeepsLast(list, dict) ==
    /\ KeySet(dict) = {objs[list[i]].name : i \in DOMAIN list}
    /\ \A i \in DOMAIN list :
           Get(dict, objs[list[i]].name)
               = list[CHOOSE j \in DOMAIN list :
                          /\ objs[list[j]].name = objs[list[i]].name
                          /\ \A h \in DOMAIN list :
                                 objs[list[h]].name = objs[list[i]].name
                                     => h <= j]

(* C8: add_namespace records an ERROR for two entities of a kind sharing a  *)
(* name and keeps the later one; it records an ERROR for a namespace name   *)
(* already registered and replaces the earlier element by the new one; the  *)
(* other namespaces stay as they are.                                       *)
C8_KeepLast ==
    [][last' = "add_namespace" =>
          LET a == args'
              el == Get(namespaces', a.name)
          IN /\ Has(namespaces', a.name)
             /\ el.name = a.name
             /\ KeepsLast(a.classes, el.classes)
             /\ KeepsLast(a.properties, el.properties)
             /\ KeepsLast(a.vocabs, el.vocabs)
             /\ \A nm \in NsNames \ {a.name} :
                    /\ Has(namespaces', nm) <=> Has(namespaces, nm)
                    /\ Has(namespaces, nm) =>
                           Get(namespaces', nm) = Get(namespaces, nm)
             /\ (DupIn(a.classes) \/ DupIn(a.properties) \/ DupIn(a.vocabs)
                     \/ Has(namespaces, a.name))
                    => (sink_attached => worst_level' >= ERROR)]_vars

\* two classes named alike were registered: the map holds the second
C8_Witness ==
    /\ last = "add_namespace"
    /\ args.classes = <<1, 2>>
    /\ objs[1].name = objs[2].name
    /\ Get(Get(namespaces, args.name).classes, objs[1].name) = 2
    /\ worst_level >= ERROR

(* C9: union_dict(T, D) leaves every key of T with T's value, gives every   *)
(* key of D that T lacks D's value, makes the key set of T the union of     *)
(* both key sets, and leaves D as it was.                                   *)
C9_UnionDict ==
    last = "union_dict" =>
        LET T == args.d1
            D == args.d2
            R == ret[1].d1
        IN /\ KeySet(R) = KeySet(T) \cup KeySet(D)
           /\ \A k \in KeySet(T) : Get(R, k) = Get(T, k)
           /\ \A k \in KeySet(D) \ KeySet(T) : Get(R, k) = Get(D, k)
           /\ ret[1].d2 = D

\* a key of both with different values, and a key only D has
C9_Witness ==
    /\ last = "union_dict"
    /\ \E k \in KeySet(args.d1) \cap KeySet(args.d2) :
           Get(args.d1, k) # Get(args.d2, k)
    /\ KeySet(args.d2) \ KeySet(args.d1) # {}

(* C10: for a reference r with at most one colon and a prefix that is a URI *)
(* (it holds the colon of its scheme), resolving the output of a resolution *)
(* again returns it unchanged.                                              *)
C10_Idempotent ==
    /\ last = "gen_rdf_id again"
    /\ Colons(args.entity) <= 1
    /\ Colons(id_metadata_prefix) >= 1
    => ret[2] = ret[1]

(* C10 as amended: resolving the output of a resolution again returns it    *)
(* unchanged exactly when that output holds at least two colons.            *)
C10_IdempotentIffTwoColons ==
    last = "gen_rdf_id again" /\ Colons(args.entity) <= 1 =>
        (ret[2] = ret[1] <=> Colons(ret[1]) >= 2)

\* a prefix with two colons: the output of the first resolution is kept
C10_Witness ==
    /\ last = "gen_rdf_id again"
    /\ Colons(args.entity) = 1
    /\ Colons(id_metadata_prefix) = 2
    /\ args.namespace_name # args.again
    /\ ret[2] = ret[1]

====
